---- MODULE Spec2Model ----
(***************************************************************************)
(* Companion-file resolution of atom-ide-ui/index.js: the directory probe  *)
(* (searchFileWithBasename), the framework lookup (getFrameworkStructure,  *)
(* getRelatedHeaderForSourceFromFramework), getRelatedHeaderForSource,     *)
(* findSourceFileForHeader and the grep-backed tree search                 *)
(* (findIncludingSourceFile, processGrepResult).                           *)
(*                                                                         *)
(* A string is a sequence of one-character strings, so that the path and   *)
(* pattern operations are computed character by character.                 *)
(***************************************************************************)
EXTENDS Integers, Sequences, FiniteSets, TLC

(***************************************************************************)
(* Strings                                                                 *)
(***************************************************************************)
SLASH == "/"
DOT == "."
NUL == "NUL"
\* the vertical tab, a character like NUL without an escape of its own
VT == "VT"
\* the six whitespace characters of ASCII
AsciiWhitespace == {" ", "\t", "\n", "\r", "\f", VT}
\* the space separators, the line and paragraph separators and the
\* byte-order mark, each a character named by its code point
UnicodeSpaces ==
  {"U+00A0", "U+1680", "U+2000", "U+2001", "U+2002", "U+2003", "U+2004",
   "U+2005", "U+2006", "U+2007", "U+2008", "U+2009", "U+200A", "U+2028",
   "U+2029", "U+202F", "U+205F", "U+3000", "U+FEFF"}
\* the characters \s of a JavaScript RegExp matches
Whitespace == AsciiWhitespace \cup UnicodeSpaces
\* the characters the dot of a JavaScript RegExp does not match
LineTerminators == {"\n", "\r", "U+2028", "U+2029"}
Null == <<"null">>
Undefined == <<"undefined">>

\* s.substr(from - 1): the characters of s from position `from` on
Tail_(s, from) == SubSeq(s, from, Len(s))

\* s.indexOf(c), 1-based; 0 when c does not occur (-1 in the source)
IndexOf(s, c) ==
  IF \E i \in 1..Len(s) : s[i] = c
  THEN CHOOSE i \in 1..Len(s) : s[i] = c /\ \A j \in 1..(i - 1) : s[j] # c
  ELSE 0

\* s.lastIndexOf(c), 1-based; 0 when c does not occur
LastIndexOf(s, c) ==
  IF \E i \in 1..Len(s) : s[i] = c
  THEN CHOOSE i \in 1..Len(s) : s[i] = c /\ \A j \in (i + 1)..Len(s) : s[j] # c
  ELSE 0

RECURSIVE Flatten(_, _)
\* the strings of parts joined by sep
Flatten(parts, sep) ==
  IF Len(parts) = 0 THEN <<>>
  ELSE IF Len(parts) = 1 THEN parts[1]
  ELSE parts[1] \o <<sep>> \o Flatten(Tail(parts), sep)

RECURSIVE SplitOn(_, _)
\* s.split(c): the pieces of s between occurrences of c
SplitOn(s, c) ==
  LET i == IndexOf(s, c)
  IN IF i = 0 THEN <<s>>
     ELSE <<SubSeq(s, 1, i - 1)>> \o SplitOn(Tail_(s, i + 1), c)

Reverse(s) == [i \in 1..Len(s) |-> s[Len(s) + 1 - i]]

(***************************************************************************)
(* Path operations (nuclideUri over posix paths)                           *)
(***************************************************************************)
isAbsolute(p) == Len(p) > 0 /\ p[1] = SLASH

RECURSIVE NormalizeSegs(_, _, _)
\* posix normalizeString: drops "" and ".", resolves ".." against the
\* segments kept so far; above the root ".." is dropped, above a relative
\* start it is kept
NormalizeSegs(segs, acc, abs) ==
  IF Len(segs) = 0 THEN acc
  ELSE LET s == Head(segs)
           rest == Tail(segs)
       IN IF s = <<>> \/ s = <<DOT>> THEN NormalizeSegs(rest, acc, abs)
          ELSE IF s = <<DOT, DOT>>
               THEN IF Len(acc) > 0 /\ acc[Len(acc)] # <<DOT, DOT>>
                    THEN NormalizeSegs(rest, SubSeq(acc, 1, Len(acc) - 1), abs)
                    ELSE IF abs THEN NormalizeSegs(rest, acc, abs)
                         ELSE NormalizeSegs(rest, Append(acc, s), abs)
               ELSE NormalizeSegs(rest, Append(acc, s), abs)

\* nuclideUri.normalize: the segments resolved, "." for an empty relative
\* result, and the trailing slash of p kept
normalize(p) ==
  LET abs == isAbsolute(p)
      trailingSeparator == Len(p) > 0 /\ p[Len(p)] = SLASH
      segs == Flatten(NormalizeSegs(SplitOn(p, SLASH), <<>>, abs), SLASH)
      body == IF segs = <<>> /\ ~abs THEN <<DOT>> ELSE segs
      closed == IF Len(body) > 0 /\ trailingSeparator THEN body \o <<SLASH>> ELSE body
  IN IF Len(p) = 0 THEN <<DOT>>
     ELSE IF abs THEN <<SLASH>> \o closed
     ELSE closed

\* nuclideUri.join(...parts): empty parts are skipped
join(parts) ==
  LET used == SelectSeq(parts, LAMBDA x : x # <<>>)
  IN IF Len(used) = 0 THEN <<DOT>> ELSE normalize(Flatten(used, SLASH))

\* the position of the last character of p that is not a slash (0 if none)
LastNonSlash(p) ==
  IF \E i \in 1..Len(p) : p[i] # SLASH
  THEN CHOOSE i \in 1..Len(p) : p[i] # SLASH /\ \A j \in (i + 1)..Len(p) : p[j] = SLASH
  ELSE 0

\* the position of the slash that ends the directory part of p: the last
\* slash before the final component, the first character apart (0 if none)
LastSeparator(p) ==
  LET e == LastNonSlash(p)
  IN IF \E i \in 2..(e - 1) : p[i] = SLASH
     THEN CHOOSE i \in 2..(e - 1) :
            p[i] = SLASH /\ \A j \in (i + 1)..(e - 1) : p[j] # SLASH
     ELSE 0

\* nuclideUri.dirname: p up to the slash before its final component, the
\* slashes before that one kept as they are; "/" or "." when there is no
\* such slash, "//" when it is the second character of an absolute path
dirname(p) ==
  LET hasRoot == isAbsolute(p)
      end == LastSeparator(p)
  IN IF Len(p) = 0 THEN <<DOT>>
     ELSE IF end = 0 THEN (IF hasRoot THEN <<SLASH>> ELSE <<DOT>>)
     ELSE IF hasRoot /\ end = 2 THEN <<SLASH, SLASH>>
     ELSE SubSeq(p, 1, end - 1)

\* nuclideUri.basename: the final component of p, trailing slashes apart
basename(p) ==
  LET end == LastNonSlash(p)
      start == LastIndexOf(SubSeq(p, 1, end), SLASH)
  IN SubSeq(p, start + 1, end)

\* nuclideUri.extname: from the last "." of the final component; "" when
\* there is none, when it is the first character, or when the component
\* is ".."
extname(p) ==
  LET b == basename(p)
      i == LastIndexOf(b, DOT)
  IN IF i <= 1 \/ b = <<DOT, DOT>> THEN <<>> ELSE Tail_(b, i)

RECURSIVE CommonPrefixLen(_, _)
CommonPrefixLen(a, b) ==
  IF Len(a) = 0 \/ Len(b) = 0 \/ Head(a) # Head(b) THEN 0
  ELSE 1 + CommonPrefixLen(Tail(a), Tail(b))

\* nuclideUri.relative(from, to)
relative(from, to) ==
  LET f == NormalizeSegs(SplitOn(from, SLASH), <<>>, isAbsolute(from))
      t == NormalizeSegs(SplitOn(to, SLASH), <<>>, isAbsolute(to))
      n == CommonPrefixLen(f, t)
      ups == [i \in 1..(Len(f) - n) |-> <<DOT, DOT>>]
  IN Flatten(ups \o SubSeq(t, n + 1, Len(t)), SLASH)

RECURSIVE SplitParts(_)
\* the loop of nuclideUri.split: basenames from the deepest up, until
\* dirname is a fixed point
SplitParts(current) ==
  IF current = dirname(current) THEN <<>>
  ELSE <<basename(current)>> \o SplitParts(dirname(current))

RECURSIVE RootOf(_)
RootOf(current) == IF current = dirname(current) THEN current ELSE RootOf(dirname(current))

\* nuclideUri.split(uri): segments from the root down; an absolute path
\* starts with the root "/"
split(uri) ==
  Reverse(SplitParts(uri) \o (IF isAbsolute(uri) THEN <<RootOf(uri)>> ELSE <<>>))

(***************************************************************************)
(* File classification (./utils)                                           *)
(***************************************************************************)
HeaderExtensions == {<<DOT, "h">>, <<DOT, "h", "p", "p">>}
SourceExtensions ==
  {<<DOT, "c">>, <<DOT, "c", "p", "p">>, <<DOT, "m">>, <<DOT, "m", "m">>}

isHeaderFile(file) == extname(file) \in HeaderExtensions
isSourceFile(file) == extname(file) \in SourceExtensions

\* the file's name without its last extension
getFileBasename(file) ==
  LET b == basename(file)
      i == LastIndexOf(b, DOT)
  IN IF i = 0 THEN b ELSE SubSeq(b, 1, i - 1)

\* searchFileWithBasename without the role condition
RECURSIVE searchFileWithBasenameAnyRole(_, _, _, _)
searchFileWithBasenameAnyRole(dir, files, bname, isHeader) ==
  IF Len(files) = 0 THEN Null
  ELSE IF getFileBasename(Head(files)) = bname
       THEN join(<<dir, Head(files)>>)
       ELSE searchFileWithBasenameAnyRole(dir, Tail(files), bname, isHeader)

\* searchFileWithBasename returning the entry name instead of its path
RECURSIVE searchFileWithBasenameBareName(_, _, _, _)
searchFileWithBasenameBareName(dir, files, bname, isHeader) ==
  IF Len(files) = 0 THEN Null
  ELSE LET file == Head(files)
           condition == IF isHeader THEN isHeaderFile(file) ELSE isSourceFile(file)
       IN IF condition /\ getFileBasename(file) = bname
          THEN file
          ELSE searchFileWithBasenameBareName(dir, Tail(files), bname, isHeader)

(***************************************************************************)
(* searchFileWithBasename: the loop over a directory listing.  files is    *)
(* the listing in the order readdir returned it ([] when readdir failed);  *)
(* isHeader selects the condition (isHeaderFile or isSourceFile).          *)
(***************************************************************************)
RECURSIVE searchFileWithBasename(_, _, _, _)
searchFileWithBasename(dir, files, bname, isHeader) ==
  IF Len(files) = 0 THEN Null
  ELSE LET file == Head(files)
           condition == IF isHeader THEN isHeaderFile(file) ELSE isSourceFile(file)
       IN IF condition /\ getFileBasename(file) = bname
          THEN join(<<dir, file>>)
          ELSE searchFileWithBasename(dir, Tail(files), bname, isHeader)

(***************************************************************************)
(* getFrameworkStructure                                                   *)
(***************************************************************************)
Sources == <<"S", "o", "u", "r", "c", "e", "s">>
Headers == <<"H", "e", "a", "d", "e", "r", "s">>
PrivateHeaders == <<"P", "r", "i", "v", "a", "t", "e">> \o Headers
HeaderFolders == <<Headers, PrivateHeaders>>

\* paths.findIndex(folderName => folderName === 'Sources'), 1-based, 0 for -1
findIndexSources(paths) ==
  IF \E i \in 1..Len(paths) : paths[i] = Sources
  THEN CHOOSE i \in 1..Len(paths) :
         paths[i] = Sources /\ \A j \in 1..(i - 1) : paths[j] # Sources
  ELSE 0

\* getFrameworkStructure looking for Sources from the root down
getFrameworkStructureShallowest(dir) ==
  LET segs == split(dir)
      paths == Reverse(segs)
      sourcesIndex == IF findIndexSources(segs) = 0 THEN 0
                      ELSE Len(segs) + 1 - findIndexSources(segs)
      above == SubSeq(paths, sourcesIndex + 1, Len(paths))
      frameworkSubPaths == SubSeq(paths, 1, sourcesIndex - 1)
  IN IF sourcesIndex = 0
     THEN [kind |-> "null"]
     ELSE IF Len(above) = 0
     THEN [kind |-> "throw"]
     ELSE [kind |-> "struct",
           frameworkName |-> paths[sourcesIndex + 1],
           frameworkPath |-> join(Reverse(above)),
           frameworkSubFolder |->
             IF Len(frameworkSubPaths) = 0 THEN <<>>
             ELSE join(Reverse(frameworkSubPaths))]

\* kind "null": no Sources segment; kind "throw": Sources is the first
\* segment of a relative dir, so that nuclideUri.join is called without a
\* path and throws; kind "struct": the three fields
getFrameworkStructure(dir) ==
  LET paths == Reverse(split(dir))
      sourcesIndex == findIndexSources(paths)
      above == SubSeq(paths, sourcesIndex + 1, Len(paths))
      frameworkSubPaths == SubSeq(paths, 1, sourcesIndex - 1)
  IN IF sourcesIndex = 0
     THEN [kind |-> "null"]
     ELSE IF Len(above) = 0
     THEN [kind |-> "throw"]
     ELSE [kind |-> "struct",
           frameworkName |-> paths[sourcesIndex + 1],
           frameworkPath |-> join(Reverse(above)),
           frameworkSubFolder |->
             IF Len(frameworkSubPaths) = 0 THEN <<>>
             ELSE join(Reverse(frameworkSubPaths))]

\* the header directory without the framework name segment
frameworkHeaderDirNoName(fw, headerFolder) ==
  join(<<fw.frameworkPath, headerFolder, fw.frameworkSubFolder>>)

\* the directory probed for headerFolder (lines 143-148)
frameworkHeaderDir(fw, headerFolder) ==
  join(<<fw.frameworkPath, headerFolder, fw.frameworkName, fw.frameworkSubFolder>>)

\* headers.find(file => file != null)
findNonNull(headers) ==
  IF \E i \in 1..Len(headers) : headers[i] # Null
  THEN headers[CHOOSE i \in 1..Len(headers) :
                 headers[i] # Null /\ \A j \in 1..(i - 1) : headers[j] = Null]
  ELSE Undefined

(***************************************************************************)
(* The include pattern and processGrepResult                               *)
(***************************************************************************)
INCLUDE == <<"#", "i", "n", "c", "l", "u", "d", "e">>
OpenDelims == {"\"", "<"}
CloseDelims == {"\"", ">"}

\* the two escaped literals of the pattern of findIncludingSourceFile; the
\* escaping makes each match itself character for character
includePattern(headerFile, projectRoot) ==
  [relativePath |-> relative(projectRoot, headerFile),
   basename |-> basename(headerFile)]

\* first position >= i of text that is not in ws (Len + 1 if none)
SkipIn(ws, text, i) ==
  IF \E j \in i..Len(text) : text[j] \notin ws
  THEN CHOOSE j \in i..Len(text) :
         text[j] \notin ws /\ \A k \in i..(j - 1) : text[k] \in ws
  ELSE Len(text) + 1

\* last position of text that is not in ws (0 if none)
LastNotIn(ws, text) ==
  IF \E j \in 1..Len(text) : text[j] \notin ws
  THEN CHOOSE j \in 1..Len(text) :
         text[j] \notin ws /\ \A k \in (j + 1)..Len(text) : text[k] \in ws
  ELSE 0

\* body matches (../)*basename: groups of two characters the dot matches
\* (any but those of stops) and a slash, then the literal basename
ascentIn(stops, body, bname) ==
  LET n == Len(body) - Len(bname)
  IN /\ n >= 0
     /\ n % 3 = 0
     /\ Tail_(body, n + 1) = bname
     /\ \A g \in 1..(n \div 3) :
          /\ body[3 * g] = SLASH
          /\ body[3 * g - 2] \notin stops
          /\ body[3 * g - 1] \notin stops

\* the match of ^\s*#include\s+["<](relativePath|(../)*basename)[">]\s*$
\* on text, \s matching the characters of ws and the dot all but those of
\* stops.  m1 is group 1; m2 is group 2, Undefined when the first
\* alternative matched or the ascent group was repeated zero times
execIn(ws, stops, pattern, text) ==
  LET i0 == SkipIn(ws, text, 1)
      k1 == i0 + Len(INCLUDE)
      j == SkipIn(ws, text, k1)
      e == LastNotIn(ws, text)
      body == SubSeq(text, j + 1, e - 1)
      framed == /\ k1 <= Len(text)
                /\ SubSeq(text, i0, k1 - 1) = INCLUDE
                /\ text[k1] \in ws
                /\ j <= Len(text)
                /\ text[j] \in OpenDelims
                /\ e > j
                /\ text[e] \in CloseDelims
      n == Len(body) - Len(pattern.basename)
  IN IF framed /\ body = pattern.relativePath
     THEN [matched |-> TRUE, m1 |-> body, m2 |-> Undefined]
     ELSE IF framed /\ ascentIn(stops, body, pattern.basename)
     THEN [matched |-> TRUE, m1 |-> body,
           m2 |-> IF n = 0 THEN Undefined ELSE SubSeq(body, n - 2, n)]
     ELSE [matched |-> FALSE, m1 |-> Undefined, m2 |-> Undefined]

\* A JavaScript string is a sequence of UTF-16 code units, and a RegExp
\* without the u flag matches unit by unit: a character beyond U+FFFF is
\* the two units of its surrogate pair, any other character is one unit
unitsOf(ch) == IF ch = "U+1F600" THEN <<"0xD83D", "0xDE00">> ELSE <<ch>>

RECURSIVE utf16Units(_)
utf16Units(text) ==
  IF Len(text) = 0 THEN <<>> ELSE unitsOf(Head(text)) \o utf16Units(Tail(text))

\* text as the code units of the string; text without a character beyond
\* U+FFFF is its own code units
utf16(text) ==
  IF \A i \in 1..Len(text) : text[i] # "U+1F600" THEN text ELSE utf16Units(text)

RECURSIVE pairUnits(_)
pairUnits(units) ==
  IF Len(units) = 0 THEN <<>>
  ELSE IF Len(units) >= 2 /\ SubSeq(units, 1, 2) = unitsOf("U+1F600")
  THEN <<"U+1F600">> \o pairUnits(SubSeq(units, 3, Len(units)))
  ELSE <<Head(units)>> \o pairUnits(Tail(units))

\* the characters of a sequence of code units: a surrogate pair is one
\* character, a unit outside a pair stays as it is
fromUtf16(units) ==
  IF \A i \in 1..Len(units) : units[i] # "0xD83D" THEN units ELSE pairUnits(units)

\* /^\s*/ from position i: the first position after the run of whitespace,
\* counted in code units
SkipWs(text, i) == SkipIn(Whitespace, utf16(text), i)

\* /\s*$/: the last position before the trailing run of whitespace, counted
\* in code units
LastNonWs(text) == LastNotIn(Whitespace, utf16(text))

\* (../)*basename as the RegExp matches it: each dot is one code unit
matchesAscent(body, bname) == ascentIn(LineTerminators, utf16(body), utf16(bname))

\* includeRegex.exec(text): the pattern matched on the code units of text
regexExec(pattern, text) ==
  LET match == execIn(Whitespace, LineTerminators,
                      [relativePath |-> utf16(pattern.relativePath),
                       basename |-> utf16(pattern.basename)],
                      utf16(text))
  IN IF match.matched
     THEN [matched |-> TRUE,
           m1 |-> fromUtf16(match.m1),
           m2 |-> IF match.m2 = Undefined THEN Undefined ELSE fromUtf16(match.m2)]
     ELSE match

\* the locales grep may inherit from the environment: the code sets none.
\* In the POSIX locale grep reads bytes, in a UTF-8 locale characters
Locales == {"POSIX", "UTF-8"}

\* characters outside ASCII that are no whitespace to anyone: one of two
\* bytes, one of three and one of four
OtherCharacters == {"U+00E9", "U+20AC", "U+1F600"}

\* the UTF-8 bytes of a character, each byte named by its value; a
\* character of ASCII is its own byte
bytesOf(ch) ==
  CASE ch = "U+00A0" -> <<"0xC2", "0xA0">>
    [] ch = "U+00E9" -> <<"0xC3", "0xA9">>
    [] ch = "U+1680" -> <<"0xE1", "0x9A", "0x80">>
    [] ch = "U+2000" -> <<"0xE2", "0x80", "0x80">>
    [] ch = "U+2001" -> <<"0xE2", "0x80", "0x81">>
    [] ch = "U+2002" -> <<"0xE2", "0x80", "0x82">>
    [] ch = "U+2003" -> <<"0xE2", "0x80", "0x83">>
    [] ch = "U+2004" -> <<"0xE2", "0x80", "0x84">>
    [] ch = "U+2005" -> <<"0xE2", "0x80", "0x85">>
    [] ch = "U+2006" -> <<"0xE2", "0x80", "0x86">>
    [] ch = "U+2007" -> <<"0xE2", "0x80", "0x87">>
    [] ch = "U+2008" -> <<"0xE2", "0x80", "0x88">>
    [] ch = "U+2009" -> <<"0xE2", "0x80", "0x89">>
    [] ch = "U+200A" -> <<"0xE2", "0x80", "0x8A">>
    [] ch = "U+2028" -> <<"0xE2", "0x80", "0xA8">>
    [] ch = "U+2029" -> <<"0xE2", "0x80", "0xA9">>
    [] ch = "U+202F" -> <<"0xE2", "0x80", "0xAF">>
    [] ch = "U+205F" -> <<"0xE2", "0x81", "0x9F">>
    [] ch = "U+20AC" -> <<"0xE2", "0x82", "0xAC">>
    [] ch = "U+3000" -> <<"0xE3", "0x80", "0x80">>
    [] ch = "U+FEFF" -> <<"0xEF", "0xBB", "0xBF">>
    [] ch = "U+1F600" -> <<"0xF0", "0x9F", "0x98", "0x80">>
    [] OTHER -> <<ch>>

RECURSIVE encode(_)
\* text as the bytes of its UTF-8 file
encode(text) ==
  IF Len(text) = 0 THEN <<>> ELSE bytesOf(Head(text)) \o encode(Tail(text))

\* the characters \s of grep -E matches: the space class of the locale,
\* which in a UTF-8 locale leaves the no-break spaces and the byte-order
\* mark out
grepWhitespace(locale) ==
  IF locale = "POSIX" THEN AsciiWhitespace
  ELSE AsciiWhitespace
         \cup (UnicodeSpaces \ {"U+00A0", "U+2007", "U+202F", "U+FEFF"})

\* grep takes a file that holds a NUL byte for binary, and writes none of
\* its lines to stdout
isBinary(line) == \E i \in 1..Len(line) : line[i] = NUL

\* grep -E on the one line of a file: in the POSIX locale the pattern is
\* matched byte by byte, in a UTF-8 locale character by character; the dot
\* matches all there is on a line
grepSelects(locale, pattern, line) ==
  /\ ~isBinary(line)
  /\ IF locale = "POSIX"
     THEN execIn(grepWhitespace(locale), {"\n"},
                 [relativePath |-> encode(pattern.relativePath),
                  basename |-> encode(pattern.basename)],
                 encode(line)).matched
     ELSE execIn(grepWhitespace(locale), {"\n"}, pattern, line).matched

\* processGrepResult without the verification of source-relative includes
processGrepResultNoVerify(result, headerFile, pattern) ==
  LET splitIndex == IndexOf(result, NUL)
      filename == SubSeq(result, 1, splitIndex - 1)
      match == regexExec(pattern, Tail_(result, splitIndex + 1))
  IN IF splitIndex = 0 THEN Null
     ELSE IF ~isSourceFile(filename) THEN Null
     ELSE IF ~match.matched THEN Null
     ELSE filename

\* processGrepResult verifying every include against the file's directory
processGrepResultAlwaysVerify(result, headerFile, pattern) ==
  LET splitIndex == IndexOf(result, NUL)
      filename == SubSeq(result, 1, splitIndex - 1)
      match == regexExec(pattern, Tail_(result, splitIndex + 1))
  IN IF splitIndex = 0 THEN Null
     ELSE IF ~isSourceFile(filename) THEN Null
     ELSE IF ~match.matched THEN Null
     ELSE IF normalize(join(<<dirname(filename), match.m1>>)) # headerFile
     THEN Null
     ELSE filename

\* processGrepResult without the test of the file's role
processGrepResultAnyRole(result, headerFile, pattern) ==
  LET splitIndex == IndexOf(result, NUL)
      filename == SubSeq(result, 1, splitIndex - 1)
      match == regexExec(pattern, Tail_(result, splitIndex + 1))
  IN IF splitIndex = 0 THEN Null
     ELSE IF ~match.matched THEN Null
     ELSE IF match.m2 # Undefined
             /\ normalize(join(<<dirname(filename), match.m1>>)) # headerFile
     THEN Null
     ELSE filename

processGrepResult(result, headerFile, pattern) ==
  LET splitIndex == IndexOf(result, NUL)
      filename == SubSeq(result, 1, splitIndex - 1)
      match == regexExec(pattern, Tail_(result, splitIndex + 1))
  IN IF splitIndex = 0 THEN Null
     ELSE IF ~isSourceFile(filename) THEN Null
     ELSE IF ~match.matched THEN Null
     ELSE IF match.m2 # Undefined
             /\ normalize(join(<<dirname(filename), match.m1>>)) # headerFile
     THEN Null
     ELSE filename

(***************************************************************************)
(* The project tree the calls run against.  A file is a path and the one   *)
(* line of text it holds.                                                  *)
(***************************************************************************)
\* at most MaxFiles files on disk, MaxCalls calls, and a clock that advances
\* by TickMs milliseconds
MaxFiles == 2
MaxCalls == 1
TickMs == 15000

\* line 91
INCLUDE_SEARCH_TIMEOUT == 15000

\* a second value let through before completing
takeTwo == 1 + 1
\* line 240: .take(1)
take == 1

AbsPath(segs) == <<SLASH>> \o Flatten(segs, SLASH)
IncludeLine(open, body, close) == INCLUDE \o <<" ", open>> \o body \o <<close>>
UP == <<DOT, DOT>>
XH == <<"x", DOT, "h">>
FH == <<"f", DOT, "h">>
QUOTE == "\""

ProjectRoot == AbsPath(<<<<"r">>>>)
HeaderFile == AbsPath(<<<<"r">>, <<"a">>, <<"b">>, XH>>)
FrameworkSource == AbsPath(<<<<"F">>, Sources, <<"S">>, <<"f", DOT, "m">>>>)
NestedSource == AbsPath(<<<<"F">>, Sources, <<"F">>, <<"S">>, <<"f", DOT, "m">>>>)
PlainSource == AbsPath(<<<<"r">>, <<"a">>, <<"b">>, <<"x", DOT, "m">>>>)

File(path, line) == [path |-> path, line |-> line]

BelowC(name) == AbsPath(<<<<"r">>, <<"a">>, <<"b">>, <<"c">>, name>>)
RootRelative == Flatten(<<<<"a">>, <<"b">>, XH>>, SLASH)

\* the header itself
HeaderOnDisk == File(HeaderFile, <<>>)
\* /r/a/b/x.m: the source next to the header
SameDirSource == File(PlainSource, IncludeLine(QUOTE, XH, QUOTE))
\* /r/a/b/c/y.m with #include "../x.h", which leads to the header; the
\* file has CRLF line ends, so its line ends with a carriage return
RelativeIncluder ==
  File(BelowC(<<"y", DOT, "m">>),
       IncludeLine(QUOTE, Flatten(<<UP, XH>>, SLASH), QUOTE) \o <<"\r">>)
\* /r/a/b/c/d/z.m with #include "../x.h", which leads to /r/a/b/c/x.h
DeeperIncluder ==
  File(AbsPath(<<<<"r">>, <<"a">>, <<"b">>, <<"c">>, <<"d">>, <<"z", DOT, "m">>>>),
       IncludeLine(QUOTE, Flatten(<<UP, XH>>, SLASH), QUOTE))
\* /r/a/b/c/w.m with #include <a/b/x.h>
RootIncluder == File(BelowC(<<"w", DOT, "m">>), IncludeLine("<", RootRelative, ">"))
\* /r/a/b/c/n.h with #include "../x.h": not a source file
HeaderIncluder ==
  File(BelowC(<<"n", DOT, "h">>), IncludeLine(QUOTE, Flatten(<<UP, XH>>, SLASH), QUOTE))
\* /r/a/b/c/u.m with #include "../wrong/x.h"
WrongIncluder ==
  File(BelowC(<<"u", DOT, "m">>),
       IncludeLine(QUOTE, Flatten(<<UP, <<"w", "r", "o", "n", "g">>, XH>>, SLASH), QUOTE))
\* /r/c/y.m with #include "../../a/b/x.h", outside the header's directory
OutsideRelative ==
  File(AbsPath(<<<<"r">>, <<"c">>, <<"y", DOT, "m">>>>),
       IncludeLine(QUOTE, Flatten(<<UP, UP, <<"a">>, <<"b">>, XH>>, SLASH), QUOTE))
\* /r/c/v.m with #include <a/b/x.h>, outside the header's directory
OutsideRoot ==
  File(AbsPath(<<<<"r">>, <<"c">>, <<"v", DOT, "m">>>>), IncludeLine("<", RootRelative, ">"))

\* /r/a/b/c/k.m with #include "x.h", which leads to /r/a/b/c/x.h
BareIncluder == File(BelowC(<<"k", DOT, "m">>), IncludeLine(QUOTE, XH, QUOTE))

\* /r/a/b/c/e.m with #include "../x.h", which leads to the header; an em
\* space follows #include, whitespace to the RegExp, and to grep in a UTF-8
\* locale only
EmSpaceIncluder ==
  File(BelowC(<<"e", DOT, "m">>),
       INCLUDE \o <<"U+2003", QUOTE>> \o Flatten(<<UP, XH>>, SLASH) \o <<QUOTE>>)

\* files around HeaderFile
SearchFiles ==
  {HeaderOnDisk, SameDirSource, RelativeIncluder, DeeperIncluder, RootIncluder,
   HeaderIncluder, WrongIncluder, BareIncluder, OutsideRelative, OutsideRoot}

\* the headers of the framework F: next to the sources, and in Headers and
\* PrivateHeaders under F/S, S and F/F/S
HeaderBesideSource == AbsPath(<<<<"F">>, Sources, <<"S">>, FH>>)
PublicHeader == AbsPath(<<<<"F">>, Headers, <<"F">>, <<"S">>, FH>>)
PrivateHeader == AbsPath(<<<<"F">>, PrivateHeaders, <<"F">>, <<"S">>, FH>>)
ShortPublicHeader == AbsPath(<<<<"F">>, Headers, <<"S">>, FH>>)
NestedPublicHeader == AbsPath(<<<<"F">>, Headers, <<"F">>, <<"F">>, <<"S">>, FH>>)

\* files around FrameworkSource and NestedSource
FrameworkFiles ==
  {File(HeaderBesideSource, <<>>), File(PublicHeader, <<>>), File(PrivateHeader, <<>>),
   File(ShortPublicHeader, <<>>), File(NestedPublicHeader, <<>>)}

Trees ==
  {t \in SUBSET SearchFiles : Cardinality(t) <= MaxFiles}
    \cup {t \in SUBSET FrameworkFiles : Cardinality(t) <= MaxFiles}

\* the first segment of an absolute path: the project it belongs to
ProjectOf(path) == Head(SplitOn(Tail_(path, 2), SLASH))

\* the paths a caller asks about are paths of the project on disk
InProject(t, path) == \A f \in t : ProjectOf(f.path) = ProjectOf(path)
HeaderArgs == {HeaderFile}
SourceArgs == {FrameworkSource, NestedSource, PlainSource}

Calls == 1..MaxCalls

\* path lies below dir
Under(dir, path) ==
  LET d == IF dir = <<SLASH>> THEN dir ELSE dir \o <<SLASH>>
  IN Len(path) > Len(d) /\ SubSeq(path, 1, Len(d)) = d

\* the entry names fsPromise.readdir(dir) lists: files and sub-directories
readdir(t, dir) ==
  LET d == IF dir = <<SLASH>> THEN dir ELSE dir \o <<SLASH>>
  IN {Head(SplitOn(Tail_(f.path, Len(d) + 1), SLASH)) : f \in {g \in t : Under(dir, g.path)}}

\* the orders in which a listing may arrive
Orderings(names) ==
  {o \in [1..Cardinality(names) -> names] :
     \A i, j \in 1..Cardinality(names) : i # j => o[i] # o[j]}

\* the stdout messages of grep -RE --null pattern dirname(headerFile): one
\* per matching line of a file below the directory, file and line separated
\* by NUL
grepLine(f) == f.path \o <<NUL>> \o f.line \o <<"\n">>

\* grep run on projectRoot instead of the header's directory
grepOutputFromRoot(locale, t, headerFile, projectRoot) ==
  {grepLine(f) :
     f \in {g \in t : /\ Under(projectRoot, g.path)
                      /\ grepSelects(locale, includePattern(headerFile, projectRoot),
                                     g.line)}}

grepOutput(locale, t, headerFile, projectRoot) ==
  {grepLine(f) :
     f \in {g \in t : /\ Under(dirname(headerFile), g.path)
                      /\ grepSelects(locale, includePattern(headerFile, projectRoot),
                                     g.line)}}

(***************************************************************************)
(* State                                                                   *)
(***************************************************************************)
VARIABLES
  tree,      \* the files on disk
  op,        \* per call: "idle", "header", "source", "including" or
             \*           "structure" (getFrameworkStructure alone)
  arg,       \* per call: the src or header path it was called with
  pc,        \* per call: "idle", "probe", "framework", "search", "done"
  outcome,   \* per call: "none", "resolved", "rejected" (promise),
             \*           "completed", "errored", "unsubscribed" (observable)
  result,    \* per call: the value the promise resolved with
  readOk,    \* per call: readdir of the file's own directory succeeded
  headers,   \* per call: results of the Headers and PrivateHeaders probes
  folderOk,  \* per call: readdir of the probed Headers, PrivateHeaders
             \*           directory succeeded
  order,     \* per call: the order in which those two probes completed
  structure, \* per call: what getFrameworkStructure returned
  listed,    \* per getRelatedHeaderForSource call: the listings its probes
             \*           of dirname(src), Headers and PrivateHeaders received
  proc,      \* per call: "none", "running", "exited", "failed", "killed"
  pending,   \* per call: stdout messages grep has not delivered yet
  seen,      \* per call: stdout messages delivered, in delivery order
  emitted,   \* per call: values emitted by findIncludingSourceFile
  elapsed    \* per call: milliseconds since the timeout was armed

vars == <<tree, op, arg, pc, outcome, result, readOk, headers, folderOk, order,
          structure, listed, proc, pending, seen, emitted, elapsed>>

Unset == <<"unset">>

\* a listing not received yet, and the entries files received
NotListed == [received |-> FALSE, files |-> <<>>]
Listing(files) == [received |-> TRUE, files |-> files]

\* no call has been made yet: the functions hold no state between calls
NoCalls(calls) ==
  /\ op = [c \in calls |-> "idle"]
  /\ arg = [c \in calls |-> Null]
  /\ pc = [c \in calls |-> "idle"]
  /\ outcome = [c \in calls |-> "none"]
  /\ result = [c \in calls |-> Unset]
  /\ readOk = [c \in calls |-> FALSE]
  /\ headers = [c \in calls |-> <<Unset, Unset>>]
  /\ folderOk = [c \in calls |-> <<FALSE, FALSE>>]
  /\ order = [c \in calls |-> <<>>]
  /\ structure = [c \in calls |-> [kind |-> "none"]]
  /\ listed = [c \in calls |-> <<NotListed, NotListed, NotListed>>]
  /\ proc = [c \in calls |-> "none"]
  /\ pending = [c \in calls |-> {}]
  /\ seen = [c \in calls |-> <<>>]
  /\ emitted = [c \in calls |-> <<>>]
  /\ elapsed = [c \in calls |-> 0]

Init ==
  /\ tree \in Trees
  /\ NoCalls(Calls)

(***************************************************************************)
(* Outcome of the promise and of the observable                            *)
(***************************************************************************)
\* disposal of the observeProcess subscription: a process still running is
\* killed, one that has exited or failed stays as it is
teardown(p) == IF p = "running" THEN "killed" ELSE p

\* the timeout or search error left uncaught: the promise rejects
searchFailureUncaught == [outcome |-> "rejected", result |-> Null]

\* line 189: .catch(() => Observable.of(null)) turns an error of the search
\* or of the timeout into the value null, which toPromise resolves with
searchFailure == [outcome |-> "resolved", result |-> Null]

\* the directories probed by the own-directory search and the pattern of
\* the tree search
ownDir(c) == dirname(arg[c])
patternOf(c) == includePattern(arg[c], ProjectRoot)

Settle(c, o, r) ==
  /\ pc' = [pc EXCEPT ![c] = "done"]
  /\ outcome' = [outcome EXCEPT ![c] = o]
  /\ result' = [result EXCEPT ![c] = r]

\* lines 216-225: subscribing to observeProcess spawns grep
Spawn(c, headerFile) ==
  /\ pc' = [pc EXCEPT ![c] = "search"]
  /\ proc' = [proc EXCEPT ![c] = "running"]
  /\ \E locale \in Locales :
       pending' = [pending EXCEPT ![c] = grepOutput(locale, tree, headerFile, ProjectRoot)]

\* Deliver without the unsubscription that completing take brings
DeliverNoUnsubscribe(c, v, procAfter, sourceDone) ==
  LET out == Append(emitted[c], v)
  IN /\ emitted' = [emitted EXCEPT ![c] = out]
     /\ proc' = [proc EXCEPT ![c] = procAfter]
     /\ IF op[c] = "source"
        THEN Settle(c, "resolved", out[Len(out)])
        ELSE Settle(c, "completed", result[c])

\* a value v leaves flatMap (lines 231, 235).  take passes it on and with
\* the take-th value completes and unsubscribes from the process; the
\* stream also completes when the process stream does (sourceDone).
\* toPromise resolves with the last value on completion.
Deliver(c, v, procAfter, sourceDone) ==
  LET out == Append(emitted[c], v)
      finished == Len(out) >= take \/ sourceDone
  IN /\ emitted' = [emitted EXCEPT ![c] = out]
     /\ proc' = [proc EXCEPT ![c] = IF finished THEN teardown(procAfter) ELSE procAfter]
     /\ IF finished
        THEN IF op[c] = "source"
             THEN Settle(c, "resolved", out[Len(out)])
             ELSE Settle(c, "completed", result[c])
        ELSE UNCHANGED <<pc, outcome, result>>

\* an error reaches the subscriber of findIncludingSourceFile
Fail(c) ==
  IF op[c] = "source"
  THEN Settle(c, searchFailure.outcome, searchFailure.result)
  ELSE Settle(c, "errored", result[c])

\* call c has not been made yet; the calls are numbered in the order in
\* which they are made
Free(c) ==
  /\ pc[c] = "idle"
  /\ \A b \in DOMAIN pc : b < c => pc[b] # "idle"

(***************************************************************************)
(* Actions                                                                 *)
(***************************************************************************)
\* getRelatedHeaderForSource(src) is called: readdir(dirname(src)) is issued
CallHeader(c, src) ==
  /\ Free(c)
  /\ InProject(tree, src)
  /\ op' = [op EXCEPT ![c] = "header"]
  /\ arg' = [arg EXCEPT ![c] = src]
  /\ pc' = [pc EXCEPT ![c] = "probe"]
  /\ UNCHANGED <<tree, structure, listed, outcome, result, readOk, headers, folderOk,
                 order, proc, pending, seen, emitted, elapsed>>

\* findSourceFileForHeader(header, projectRoot) is called
CallSource(c, header) ==
  /\ Free(c)
  /\ InProject(tree, header)
  /\ op' = [op EXCEPT ![c] = "source"]
  /\ arg' = [arg EXCEPT ![c] = header]
  /\ pc' = [pc EXCEPT ![c] = "probe"]
  /\ UNCHANGED <<tree, structure, listed, outcome, result, readOk, headers, folderOk,
                 order, proc, pending, seen, emitted, elapsed>>

\* findIncludingSourceFile(header, projectRoot) is subscribed to by a caller
Subscribe(c, header) ==
  /\ Free(c)
  /\ InProject(tree, header)
  /\ op' = [op EXCEPT ![c] = "including"]
  /\ arg' = [arg EXCEPT ![c] = header]
  /\ Spawn(c, header)
  /\ UNCHANGED <<tree, structure, listed, outcome, result, readOk, headers, folderOk,
                 order, seen, emitted, elapsed>>

\* HeaderProbeDone with the failure of readdir left uncaught: the promise
\* rejects
HeaderProbeDoneRaises(c) ==
  /\ op[c] = "header"
  /\ pc[c] = "probe"
  /\ \E ok \in BOOLEAN :
       \E files \in IF ok THEN Orderings(readdir(tree, ownDir(c))) ELSE {<<>>} :
         LET header == searchFileWithBasename(ownDir(c), files,
                                              getFileBasename(arg[c]), TRUE)
             frameworkStructure == getFrameworkStructure(ownDir(c))
         IN /\ readOk' = [readOk EXCEPT ![c] = ok]
            /\ listed' = [listed EXCEPT ![c][1] = Listing(files)]
            /\ structure' =
                 [structure EXCEPT ![c] = IF header # Null THEN @ ELSE frameworkStructure]
            /\ IF ~ok
               THEN Settle(c, "rejected", result[c])
               ELSE IF header # Null
               THEN Settle(c, "resolved", header)
               ELSE IF frameworkStructure.kind = "null"
               THEN Settle(c, "resolved", Null)
               ELSE IF frameworkStructure.kind = "throw"
               THEN Settle(c, "rejected", result[c])
               ELSE /\ pc' = [pc EXCEPT ![c] = "framework"]
                    /\ UNCHANGED <<outcome, result>>
  /\ UNCHANGED <<tree, op, arg, headers, folderOk, order, proc, pending, seen,
                 emitted, elapsed>>

\* getRelatedHeaderForSource, lines 159-168, and lines 134-139 of
\* getRelatedHeaderForSourceFromFramework: the own-directory probe returns
HeaderProbeDone(c) ==
  /\ op[c] = "header"
  /\ pc[c] = "probe"
  /\ \E ok \in BOOLEAN :
       \E files \in IF ok THEN Orderings(readdir(tree, ownDir(c))) ELSE {<<>>} :
         LET header == searchFileWithBasename(ownDir(c), files,
                                              getFileBasename(arg[c]), TRUE)
             frameworkStructure == getFrameworkStructure(ownDir(c))
         IN /\ readOk' = [readOk EXCEPT ![c] = ok]
            /\ listed' = [listed EXCEPT ![c][1] = Listing(files)]
            /\ structure' =
                 [structure EXCEPT ![c] = IF header # Null THEN @ ELSE frameworkStructure]
            /\ IF header # Null
               THEN Settle(c, "resolved", header)
               ELSE IF frameworkStructure.kind = "null"
               THEN Settle(c, "resolved", Null)
               ELSE IF frameworkStructure.kind = "throw"
               THEN Settle(c, "rejected", result[c])
               ELSE /\ pc' = [pc EXCEPT ![c] = "framework"]
                    /\ UNCHANGED <<outcome, result>>
  /\ UNCHANGED <<tree, op, arg, headers, folderOk, order, proc, pending, seen,
                 emitted, elapsed>>

\* FrameworkProbeDone taking the first header found in completion order
FrameworkProbeDoneRace(c, i) ==
  /\ op[c] = "header"
  /\ pc[c] = "framework"
  /\ headers[c][i] = Unset
  /\ LET dir == frameworkHeaderDir(getFrameworkStructure(ownDir(c)), HeaderFolders[i])
     IN \E ok \in BOOLEAN :
        \E files \in IF ok THEN Orderings(readdir(tree, dir)) ELSE {<<>>} :
          LET found == searchFileWithBasename(dir, files, getFileBasename(arg[c]), TRUE)
              all == [headers[c] EXCEPT ![i] = found]
              ord == Append(order[c], i)
          IN /\ headers' = [headers EXCEPT ![c] = all]
             /\ folderOk' = [folderOk EXCEPT ![c][i] = ok]
             /\ listed' = [listed EXCEPT ![c][i + 1] = Listing(files)]
             /\ order' = [order EXCEPT ![c] = ord]
             /\ IF \A k \in 1..Len(all) : all[k] # Unset
                THEN Settle(c, "resolved", findNonNull([k \in 1..Len(ord) |-> all[ord[k]]]))
                ELSE UNCHANGED <<pc, outcome, result>>
  /\ UNCHANGED <<tree, structure, op, arg, readOk, proc, pending, seen, emitted,
                 elapsed>>

\* FrameworkProbeDone collecting the results in the order in which the
\* probes return
FrameworkProbeDonePush(c, i) ==
  /\ op[c] = "header"
  /\ pc[c] = "framework"
  /\ \A k \in 1..Len(order[c]) : order[c][k] # i
  /\ LET dir == frameworkHeaderDir(getFrameworkStructure(ownDir(c)), HeaderFolders[i])
     IN \E ok \in BOOLEAN :
        \E files \in IF ok THEN Orderings(readdir(tree, dir)) ELSE {<<>>} :
          LET found == searchFileWithBasename(dir, files, getFileBasename(arg[c]), TRUE)
              all == [headers[c] EXCEPT ![Len(order[c]) + 1] = found]
          IN /\ headers' = [headers EXCEPT ![c] = all]
             /\ folderOk' = [folderOk EXCEPT ![c][i] = ok]
             /\ listed' = [listed EXCEPT ![c][i + 1] = Listing(files)]
             /\ order' = [order EXCEPT ![c] = Append(@, i)]
             /\ IF \A k \in 1..Len(all) : all[k] # Unset
                THEN Settle(c, "resolved", findNonNull(all))
                ELSE UNCHANGED <<pc, outcome, result>>
  /\ UNCHANGED <<tree, structure, op, arg, readOk, proc, pending, seen, emitted,
                 elapsed>>

\* getRelatedHeaderForSourceFromFramework, lines 140-154: one of the two
\* probes issued by Promise.all returns; when both have, the first
\* non-null entry of the array, in array order, is the result
FrameworkProbeDone(c, i) ==
  /\ op[c] = "header"
  /\ pc[c] = "framework"
  /\ headers[c][i] = Unset
  /\ LET dir == frameworkHeaderDir(getFrameworkStructure(ownDir(c)), HeaderFolders[i])
     IN \E ok \in BOOLEAN :
        \E files \in IF ok THEN Orderings(readdir(tree, dir)) ELSE {<<>>} :
          LET found == searchFileWithBasename(dir, files, getFileBasename(arg[c]), TRUE)
              all == [headers[c] EXCEPT ![i] = found]
          IN /\ headers' = [headers EXCEPT ![c] = all]
             /\ folderOk' = [folderOk EXCEPT ![c][i] = ok]
             /\ listed' = [listed EXCEPT ![c][i + 1] = Listing(files)]
             /\ order' = [order EXCEPT ![c] = Append(@, i)]
             /\ IF \A k \in 1..Len(all) : all[k] # Unset
                THEN Settle(c, "resolved", findNonNull(all))
                ELSE UNCHANGED <<pc, outcome, result>>
  /\ UNCHANGED <<tree, structure, op, arg, readOk, proc, pending, seen, emitted,
                 elapsed>>

\* findSourceFileForHeader, lines 177-190: the own-directory probe returns;
\* without a source there, the tree search is subscribed to and the
\* timeout armed
SourceProbeDone(c) ==
  /\ op[c] = "source"
  /\ pc[c] = "probe"
  /\ \E ok \in BOOLEAN :
       \E files \in IF ok THEN Orderings(readdir(tree, ownDir(c))) ELSE {<<>>} :
         LET source == searchFileWithBasename(ownDir(c), files,
                                              getFileBasename(arg[c]), FALSE)
         IN /\ readOk' = [readOk EXCEPT ![c] = ok]
            /\ IF source # Null
               THEN /\ Settle(c, "resolved", source)
                    /\ UNCHANGED <<proc, pending>>
               ELSE /\ Spawn(c, arg[c])
                    /\ UNCHANGED <<outcome, result>>
  /\ UNCHANGED <<tree, structure, listed, op, arg, headers, folderOk, order, seen,
                 emitted, elapsed>>

\* Stdout emitting what processGrepResult returns, null included
StdoutRejectEnds(c) ==
  /\ pc[c] = "search"
  /\ proc[c] = "running"
  /\ \E data \in pending[c] :
       LET file == processGrepResult(data, arg[c], patternOf(c))
       IN /\ pending' = [pending EXCEPT ![c] = @ \ {data}]
          /\ seen' = [seen EXCEPT ![c] = Append(@, data)]
          /\ Deliver(c, file, "running", FALSE)
  /\ UNCHANGED <<tree, structure, listed, op, arg, readOk, headers, folderOk, order,
                 elapsed>>

\* findIncludingSourceFile, lines 229-231: a stdout message arrives; a file
\* processGrepResult accepts is emitted, any other message is dropped
Stdout(c) ==
  /\ pc[c] = "search"
  /\ proc[c] = "running"
  /\ \E data \in pending[c] :
       LET file == processGrepResult(data, arg[c], patternOf(c))
       IN /\ pending' = [pending EXCEPT ![c] = @ \ {data}]
          /\ seen' = [seen EXCEPT ![c] = Append(@, data)]
          /\ IF file = Null
             THEN UNCHANGED <<pc, outcome, result, proc, emitted>>
             ELSE Deliver(c, file, "running", FALSE)
  /\ UNCHANGED <<tree, structure, listed, op, arg, readOk, headers, folderOk, order,
                 elapsed>>

\* the exit statuses of grep: lines selected, none selected, error
ExitCodes == {0, 1, 2}

\* an exit with a status other than 0 taken for an error
isExitErrorNonZero(code) == code # 0

\* line 224: isExitError: () => false
isExitError(code) == FALSE

\* lines 234-235: grep has written all its output and exits with status
\* code; as no exit counts as an error, the exit message arrives, null is
\* emitted and the stream completes
Exit(c, code) ==
  /\ pc[c] = "search"
  /\ proc[c] = "running"
  /\ pending[c] = {}
  /\ IF isExitError(code)
     THEN /\ proc' = [proc EXCEPT ![c] = "exited"]
          /\ Fail(c)
          /\ UNCHANGED emitted
     ELSE Deliver(c, Null, "exited", TRUE)
  /\ UNCHANGED <<tree, structure, listed, op, arg, readOk, headers, folderOk, order,
                 pending, seen, elapsed>>

\* ProcessError with the error message mapped to null, as the exit message
\* is
ProcessErrorAsNull(c) ==
  /\ pc[c] = "search"
  /\ proc[c] = "running"
  /\ Deliver(c, Null, "failed", TRUE)
  /\ UNCHANGED <<tree, structure, listed, op, arg, readOk, headers, folderOk, order,
                 pending, seen, elapsed>>

\* lines 226, 232-233: the process stream errors (grep cannot be run); the
\* error is rethrown from flatMap
ProcessError(c) ==
  /\ pc[c] = "search"
  /\ proc[c] = "running"
  /\ proc' = [proc EXCEPT ![c] = "failed"]
  /\ Fail(c)
  /\ UNCHANGED <<tree, structure, listed, op, arg, readOk, headers, folderOk, order,
                 pending, seen, emitted, elapsed>>

\* time passes while findSourceFileForHeader waits for the tree search
Tick(c) ==
  /\ op[c] = "source"
  /\ pc[c] = "search"
  /\ elapsed[c] < INCLUDE_SEARCH_TIMEOUT
  /\ elapsed' = [elapsed EXCEPT ![c] =
                   IF @ + TickMs > INCLUDE_SEARCH_TIMEOUT
                   THEN INCLUDE_SEARCH_TIMEOUT ELSE @ + TickMs]
  /\ UNCHANGED <<tree, structure, listed, op, arg, pc, outcome, result, readOk,
                 headers, folderOk, order, proc, pending, seen, emitted>>

\* findSourceFileForHeader without the timeout operator
TimeoutMissing(c) ==
  /\ FALSE
  /\ UNCHANGED vars

\* line 188: nothing was emitted within INCLUDE_SEARCH_TIMEOUT; timeout
\* unsubscribes from the search and errors
Timeout(c) ==
  /\ op[c] = "source"
  /\ pc[c] = "search"
  /\ elapsed[c] >= INCLUDE_SEARCH_TIMEOUT
  /\ proc' = [proc EXCEPT ![c] = teardown(@)]
  /\ Fail(c)
  /\ UNCHANGED <<tree, structure, listed, op, arg, readOk, headers, folderOk, order,
                 pending, seen, emitted, elapsed>>

\* Unsubscribe with one process handle shared by all the calls: disposing
\* it kills every running grep
UnsubscribeShared(c) ==
  /\ op[c] = "including"
  /\ pc[c] = "search"
  /\ proc' = [b \in DOMAIN proc |-> teardown(proc[b])]
  /\ Settle(c, "unsubscribed", result[c])
  /\ UNCHANGED <<tree, structure, listed, op, arg, readOk, headers, folderOk, order,
                 pending, seen, emitted, elapsed>>

\* the caller of findIncludingSourceFile unsubscribes before any result
Unsubscribe(c) ==
  /\ op[c] = "including"
  /\ pc[c] = "search"
  /\ proc' = [proc EXCEPT ![c] = teardown(@)]
  /\ Settle(c, "unsubscribed", result[c])
  /\ UNCHANGED <<tree, structure, listed, op, arg, readOk, headers, folderOk, order,
                 pending, seen, emitted, elapsed>>

Next ==
  \/ \E c \in Calls : \E src \in SourceArgs : CallHeader(c, src)
  \/ \E c \in Calls : \E header \in HeaderArgs : CallSource(c, header)
  \/ \E c \in Calls : \E header \in HeaderArgs : Subscribe(c, header)
  \/ \E c \in Calls : HeaderProbeDone(c)
  \/ \E c \in Calls : \E i \in 1..Len(HeaderFolders) : FrameworkProbeDone(c, i)
  \/ \E c \in Calls : SourceProbeDone(c)
  \/ \E c \in Calls : Stdout(c)
  \/ \E c \in Calls : \E code \in ExitCodes : Exit(c, code)
  \/ \E c \in Calls : ProcessError(c)
  \/ \E c \in Calls : Tick(c)
  \/ \E c \in Calls : Timeout(c)
  \/ \E c \in Calls : Unsubscribe(c)

Spec == Init /\ [][Next]_vars

\* the event loop runs every callback that is due: a directory listing that
\* was asked for returns, time passes and the timer of the timeout fires.
\* Nothing makes grep write or exit.  A probe is waiting exactly while
\* pc = "probe", where HeaderProbeDone or SourceProbeDone is enabled and
\* leaves that position, so weak fairness of the two is the condition that
\* the call is again and again not waiting for its listing.
FairSpec ==
  /\ Spec
  /\ \A c \in Calls : []<>(pc[c] # "probe")
  /\ \A c \in Calls : WF_vars(Tick(c))
  /\ \A c \in Calls : WF_vars(Timeout(c))

\* two calls made one after the other, the second possibly while the first
\* is still running: findSourceFileForHeader or findIncludingSourceFile for
\* HeaderFile against a tree of files at and below its directory, or
\* getRelatedHeaderForSource against the headers of the framework F
Pair == {1, 2}

PairFiles ==
  {SameDirSource, RelativeIncluder, DeeperIncluder, RootIncluder, HeaderIncluder,
   EmSpaceIncluder}

\* /F/Sources/S/f.hpp: a second header beside the source
SecondHeaderBesideSource ==
  AbsPath(<<<<"F">>, Sources, <<"S">>, <<"f", DOT, "h", "p", "p">>>>)

FrameworkPairFiles ==
  {File(HeaderBesideSource, <<>>), File(SecondHeaderBesideSource, <<>>),
   File(PublicHeader, <<>>), File(PrivateHeader, <<>>)}

PairTrees ==
  {t \in SUBSET PairFiles : Cardinality(t) <= MaxFiles}
    \cup {t \in SUBSET FrameworkPairFiles : Cardinality(t) <= MaxFiles}

InitPair ==
  /\ tree \in PairTrees
  /\ NoCalls(Pair)

NextPair ==
  \/ \E c \in Pair : \E src \in SourceArgs : CallHeader(c, src)
  \/ \E c \in Pair : HeaderProbeDone(c)
  \/ \E c \in Pair : \E i \in 1..Len(HeaderFolders) : FrameworkProbeDone(c, i)
  \/ \E c \in Pair : \E header \in HeaderArgs : CallSource(c, header)
  \/ \E c \in Pair : \E header \in HeaderArgs : Subscribe(c, header)
  \/ \E c \in Pair : SourceProbeDone(c)
  \/ \E c \in Pair : Stdout(c)
  \/ \E c \in Pair : \E code \in ExitCodes : Exit(c, code)
  \/ \E c \in Pair : ProcessError(c)
  \/ \E c \in Pair : Tick(c)
  \/ \E c \in Pair : Timeout(c)
  \/ \E c \in Pair : Unsubscribe(c)

PairSpec == InitPair /\ [][NextPair]_vars

\* getFrameworkStructure applied to the directories of up to MaxDepth
\* segments, absolute and relative
MaxDepth == 3
SegmentNames == {Sources, Headers, <<"F">>, <<"S">>}
SegmentLists == UNION {[1..n -> SegmentNames] : n \in 1..MaxDepth}
FrameworkDirs ==
  {Flatten(segs, SLASH) : segs \in SegmentLists}
    \cup {AbsPath(segs) : segs \in SegmentLists}

Single == {1}

InitFramework ==
  /\ tree = {}
  /\ NoCalls(Single)

\* line 134: getFrameworkStructure(dir) is called
FrameworkStructureFor(c, dir) ==
  /\ pc[c] = "idle"
  /\ op' = [op EXCEPT ![c] = "structure"]
  /\ arg' = [arg EXCEPT ![c] = dir]
  /\ structure' = [structure EXCEPT ![c] = getFrameworkStructure(dir)]
  /\ pc' = [pc EXCEPT ![c] = "done"]
  /\ UNCHANGED <<tree, outcome, result, readOk, headers, folderOk, order, listed,
                 proc, pending, seen, emitted, elapsed>>

NextFramework ==
  \E c \in Single : \E dir \in FrameworkDirs : FrameworkStructureFor(c, dir)

FrameworkSpec == InitFramework /\ [][NextFramework]_vars

TypeOK ==
  /\ tree \in Trees
  /\ \A c \in Calls :
       /\ op[c] \in {"idle", "header", "source", "including"}
       /\ pc[c] \in {"idle", "probe", "framework", "search", "done"}
       /\ outcome[c] \in {"none", "resolved", "rejected", "completed",
                          "errored", "unsubscribed"}
       /\ proc[c] \in {"none", "running", "exited", "failed", "killed"}
       /\ elapsed[c] \in 0..INCLUDE_SEARCH_TIMEOUT

(***************************************************************************)
(* Properties                                                              *)
(***************************************************************************)
\* the files of the tree that are companions of path in its own directory:
\* same directory, same basename, header or source role
SameDir(t, path, isHeader) ==
  {f.path : f \in {g \in t : /\ dirname(g.path) = dirname(path)
                             /\ getFileBasename(g.path) = getFileBasename(path)
                             /\ IF isHeader THEN isHeaderFile(g.path)
                                ELSE isSourceFile(g.path)}}

\* the path an include line names: the text between its delimiters
IncludedPath(line) ==
  LET text == IF Len(line) > 0 /\ line[Len(line)] = "\r"
              THEN SubSeq(line, 1, Len(line) - 1)
              ELSE line
  IN IF Len(text) < Len(INCLUDE) + 3 THEN <<>>
     ELSE SubSeq(text, Len(INCLUDE) + 3, Len(text) - 1)

\* file f includes header: its line is an include directive that names
\* the header by its path below projectRoot, or by a path that leads to the
\* header from f's own directory
Includes(f, header) ==
  LET named == IncludedPath(f.line)
  IN /\ Len(f.line) > Len(INCLUDE)
     /\ SubSeq(f.line, 1, Len(INCLUDE)) = INCLUDE
     /\ \/ named = relative(ProjectRoot, header)
        \/ normalize(join(<<dirname(f.path), named>>)) = header

\* header has no source in its own directory and no source file below its
\* directory includes it
NoCompanion(t, header) ==
  /\ SameDir(t, header, FALSE) = {}
  /\ \A f \in t : ~(/\ isSourceFile(f.path)
                    /\ Under(dirname(header), f.path)
                    /\ Includes(f, header))

\* C1: findSourceFileForHeader never rejects because of the tree search:
\* when the scan fails or the timeout expires before a match was accepted,
\* the promise resolves with null
C1_SearchFailureIsNull ==
  \A c \in Calls :
    op[c] = "source" =>
      /\ outcome[c] # "rejected"
      /\ (pc[c] = "done" /\ emitted[c] = <<>> /\ proc[c] \in {"failed", "killed"})
           => (outcome[c] = "resolved" /\ result[c] = Null)

C1_Witness ==
  \E c \in Calls :
    /\ op[c] = "source"
    /\ proc[c] = "failed"
    /\ outcome[c] = "resolved"
    /\ result[c] = Null

\* C2: a run of findIncludingSourceFile emits at most one value, a path or
\* null, and has terminated once it has emitted
C2_AtMostOneEmission ==
  \A c \in Calls :
    /\ Len(emitted[c]) <= 1
    /\ Len(emitted[c]) = 1 =>
         /\ pc[c] = "done"
         /\ outcome[c] \in {"completed", "resolved"}

C2_Witness ==
  \E c \in Calls :
    /\ op[c] = "including"
    /\ Len(emitted[c]) = 1
    /\ emitted[c][1] # Null
    /\ pending[c] # {}
    /\ outcome[c] = "completed"

\* C3: once a run has ended, by an accepted match, an unsubscription, the
\* timeout or a scan error, its grep process is no longer running
C3_ProcessReleased ==
  \A c \in Calls :
    (pc[c] = "done" /\ proc[c] # "none") => proc[c] \in {"exited", "failed", "killed"}

C3_Witness ==
  \E c \in Calls :
    /\ pc[c] = "done"
    /\ Len(emitted[c]) = 1
    /\ emitted[c][1] # Null
    /\ proc[c] = "killed"

\* C4: every findSourceFileForHeader call resolves, and for a header with
\* no same-directory source and no source below its directory that includes
\* it, the call resolves with null no later than the timeout, also when
\* grep neither writes nor exits
C4_EventuallyResolves ==
  \A c \in Calls :
    /\ (op[c] = "source") ~> (outcome[c] = "resolved")
    /\ (op[c] = "source" /\ NoCompanion(tree, arg[c]))
         ~> (/\ outcome[c] = "resolved"
             /\ result[c] = Null
             /\ elapsed[c] <= INCLUDE_SEARCH_TIMEOUT)

C4_Witness ==
  \E c \in Calls :
    /\ op[c] = "source"
    /\ NoCompanion(tree, arg[c])
    /\ outcome[c] = "resolved"
    /\ result[c] = Null
    /\ proc[c] = "killed"
    /\ pending[c] # {}
    /\ elapsed[c] = INCLUDE_SEARCH_TIMEOUT

\* C5: when the header's directory lists a source with the header's
\* basename, findSourceFileForHeader resolves with it straight from the
\* probe and no grep process is ever spawned by the call
C5_SameDirSourceNoSearch ==
  \A c \in Calls :
    (/\ op[c] = "source"
     /\ pc[c] \notin {"idle", "probe"}
     /\ readOk[c]
     /\ SameDir(tree, arg[c], FALSE) # {})
      => /\ pc[c] = "done"
         /\ outcome[c] = "resolved"
         /\ result[c] \in SameDir(tree, arg[c], FALSE)
         /\ proc[c] = "none"
         /\ seen[c] = <<>>
         /\ emitted[c] = <<>>

C5_Witness ==
  \E c \in Calls :
    /\ op[c] = "source"
    /\ outcome[c] = "resolved"
    /\ result[c] = PlainSource
    /\ proc[c] = "none"
    /\ \E f \in tree : f.path # PlainSource /\ Under(dirname(arg[c]), f.path)

\* C6: for a source whose directory lists exactly one header with the same
\* basename, getRelatedHeaderForSource resolves with that header and issues
\* no framework probe
C6_SameDirHeader ==
  \A c \in Calls :
    (/\ op[c] = "header"
     /\ pc[c] \notin {"idle", "probe"}
     /\ readOk[c]
     /\ Cardinality(SameDir(tree, arg[c], TRUE)) = 1)
      => /\ pc[c] = "done"
         /\ outcome[c] = "resolved"
         /\ {result[c]} = SameDir(tree, arg[c], TRUE)
         /\ headers[c] = <<Unset, Unset>>
         /\ order[c] = <<>>

C6_Witness ==
  \E c \in Calls :
    /\ op[c] = "header"
    /\ arg[c] = FrameworkSource
    /\ outcome[c] = "resolved"
    /\ result[c] = HeaderBesideSource
    /\ \E f \in tree : Under(AbsPath(<<<<"F">>, Headers>>), f.path)

\* the header the framework lookup finds for a source of F: in Headers,
\* under the framework's name and then every segment below Sources
ExpectedFrameworkHeader(src) ==
  IF src = FrameworkSource THEN PublicHeader ELSE NestedPublicHeader

\* C7 as claimed: for F/Sources/F/S/f.m with no header beside it and the
\* header F/Headers/S/f.h on disk, in readable directories,
\* getRelatedHeaderForSource resolves with F/Headers/S/f.h
C7_Original ==
  \A c \in Calls :
    (/\ op[c] = "header"
     /\ arg[c] = NestedSource
     /\ pc[c] = "done"
     /\ SameDir(tree, arg[c], TRUE) = {}
     /\ File(ShortPublicHeader, <<>>) \in tree
     /\ folderOk[c] = <<TRUE, TRUE>>)
      => result[c] = ShortPublicHeader

\* C7: for a framework source with no header beside it,
\* getRelatedHeaderForSource resolves with the header in Headers, then the
\* framework's name, then all the segments between Sources and the file:
\* F/Headers/F/S/f.h for F/Sources/S/f.m and F/Headers/F/F/S/f.h for
\* F/Sources/F/S/f.m; it never resolves with F/Headers/S/f.h
C7_FrameworkHeader ==
  \A c \in Calls :
    (op[c] = "header" /\ pc[c] = "done" /\ arg[c] \in {FrameworkSource, NestedSource})
      => /\ result[c] # ShortPublicHeader
         /\ (/\ SameDir(tree, arg[c], TRUE) = {}
             /\ File(ExpectedFrameworkHeader(arg[c]), <<>>) \in tree
             /\ folderOk[c][1])
              => result[c] = ExpectedFrameworkHeader(arg[c])

C7_Witness ==
  \E c \in Calls :
    /\ op[c] = "header"
    /\ arg[c] = FrameworkSource
    /\ SameDir(tree, arg[c], TRUE) = {}
    /\ outcome[c] = "resolved"
    /\ result[c] = PublicHeader

\* C8: when both framework probes have returned, the result is the header
\* found in Headers if there is one, else the one found in PrivateHeaders,
\* in whichever order the probes returned
C8_HeadersFirst ==
  \A c \in Calls :
    (op[c] = "header" /\ pc[c] = "done" /\ Len(order[c]) = Len(HeaderFolders))
      => /\ headers[c][1] # Null => result[c] = headers[c][1]
         /\ (headers[c][1] = Null /\ headers[c][2] # Null) => result[c] = headers[c][2]
         /\ Under(join(<<AbsPath(<<<<"F">>>>), PrivateHeaders>>), result[c])
              => headers[c][1] = Null

C8_Witness ==
  \E c \in Calls :
    /\ op[c] = "header"
    /\ pc[c] = "done"
    /\ order[c] = <<2, 1>>
    /\ headers[c][1] = PublicHeader
    /\ headers[c][2] = PrivateHeader
    /\ result[c] = PublicHeader

\* the tree search of call c ran to an emission
SearchEnded(c) ==
  /\ op[c] \in {"including", "source"}
  /\ pc[c] = "done"
  /\ Len(emitted[c]) = 1

\* C9 as claimed: with /r/c/y.m holding #include "../../a/b/x.h" on disk,
\* a tree search for /r/a/b/x.h that ran to its end returned /r/c/y.m
C9_Original ==
  \A c \in Calls :
    (SearchEnded(c) /\ tree = {OutsideRelative})
      => emitted[c] = <<OutsideRelative.path>>

\* C9: a source below the header's directory whose include is ../ ascents
\* and the header's name is returned when the ascents lead from its
\* directory to the header (/r/a/b/c/y.m with "../x.h") and is passed over
\* when they lead elsewhere (/r/a/b/c/d/z.m with "../x.h"); a source outside
\* the header's directory, and a line like "../wrong/x.h", are never
\* reported by the scan and never returned
C9_SourceRelativeInclude ==
  \A c \in Calls :
    /\ \A k \in 1..Len(seen[c]) :
         seen[c][k] = grepLine(RelativeIncluder)
           => (k = Len(seen[c]) /\ emitted[c] = <<RelativeIncluder.path>>)
    /\ emitted[c] # <<DeeperIncluder.path>>
    /\ \A f \in {WrongIncluder, OutsideRelative} :
         /\ grepLine(f) \notin pending[c]
         /\ \A k \in 1..Len(seen[c]) : seen[c][k] # grepLine(f)
         /\ emitted[c] # <<f.path>>

C9_Witness ==
  \E c \in Calls :
    /\ seen[c] = <<grepLine(DeeperIncluder), grepLine(RelativeIncluder)>>
    /\ emitted[c] = <<RelativeIncluder.path>>

\* C10 as claimed: with /r/c/v.m holding #include <a/b/x.h> on disk, a tree
\* search for /r/a/b/x.h that ran to its end returned /r/c/v.m
C10_Original ==
  \A c \in Calls :
    (SearchEnded(c) /\ tree = {OutsideRoot})
      => emitted[c] = <<OutsideRoot.path>>

\* C10: a source below the header's directory that includes the header by
\* its path from the project root (/r/a/b/c/w.m with <a/b/x.h>) is returned
\* as soon as the scan reports it, although the path does not lead from the
\* file's directory to the header; a source outside the header's directory
\* is never reported and never returned
C10_RootRelativeInclude ==
  \A c \in Calls :
    /\ \A k \in 1..Len(seen[c]) :
         seen[c][k] = grepLine(RootIncluder)
           => (k = Len(seen[c]) /\ emitted[c] = <<RootIncluder.path>>)
    /\ grepLine(OutsideRoot) \notin pending[c]
    /\ \A k \in 1..Len(seen[c]) : seen[c][k] # grepLine(OutsideRoot)
    /\ emitted[c] # <<OutsideRoot.path>>

C10_Witness ==
  \E c \in Calls :
    /\ seen[c] = <<grepLine(RootIncluder)>>
    /\ emitted[c] = <<RootIncluder.path>>
    /\ normalize(join(<<dirname(RootIncluder.path), IncludedPath(RootIncluder.line)>>))
         # arg[c]

\* all that call c holds
Local(c) ==
  <<op[c], arg[c], pc[c], outcome[c], result[c], readOk[c], headers[c], folderOk[c],
    order[c], proc[c], pending[c], seen[c], emitted[c], elapsed[c]>>

\* the files below header's directory whose grep message processGrepResult
\* accepts
Accepted(locale, t, header) ==
  {f \in t : /\ grepLine(f) \in grepOutput(locale, t, header, ProjectRoot)
             /\ processGrepResult(grepLine(f), header,
                                   includePattern(header, ProjectRoot)) # Null}

\* what the tree search of a call made alone delivers: grep runs until the
\* call ends, the messages are those of the scan of the header's directory
\* in the locale grep inherited, a path emitted is one of the accepted files
\* and null is emitted only when there is none
AsIfAlone(c) ==
  /\ pc[c] = "search" => proc[c] = "running"
  /\ \E locale \in Locales :
       /\ proc[c] # "none" =>
            pending[c] \cup {seen[c][k] : k \in 1..Len(seen[c])}
              = grepOutput(locale, tree, arg[c], ProjectRoot)
       /\ \A k \in 1..Len(emitted[c]) :
            IF emitted[c][k] = Null
            THEN Accepted(locale, tree, arg[c]) = {}
            ELSE emitted[c][k] \in {f.path : f \in Accepted(locale, tree, arg[c])}

\* C11: the calls are independent.  Every step is a step of one call and
\* leaves all that the other calls hold unchanged, whether it cancels, times
\* out or completes the call; and every call, also one made after or while
\* another call for the same header was cancelled, processes the messages
\* and delivers the result of a call made alone
C11_Independent ==
  /\ [](\A c \in DOMAIN pc : AsIfAlone(c))
  /\ [][\A c \in DOMAIN pc :
          Local(c)' # Local(c) => \A b \in DOMAIN pc \ {c} : Local(b)' = Local(b)]_vars

\* the first call was cancelled at once, with messages outstanding; the
\* second, for the same header, went through two messages to its result
C11_Witness ==
  /\ DOMAIN pc = Pair
  /\ op[1] = "including"
  /\ outcome[1] = "unsubscribed"
  /\ seen[1] = <<>>
  /\ pending[1] # {}
  /\ proc[1] = "killed"
  /\ arg[2] = arg[1]
  /\ seen[2] = <<grepLine(DeeperIncluder), grepLine(RelativeIncluder)>>
  /\ emitted[2] = <<RelativeIncluder.path>>

\* C12: two getRelatedHeaderForSource calls for the same source whose
\* probes received the same listings settle alike, with the same path or
\* both with no header, in whatever order the probes of each returned
C12_Idempotent ==
  \A b, c \in DOMAIN pc :
    (/\ op[b] = "header" /\ op[c] = "header"
     /\ pc[b] = "done" /\ pc[c] = "done"
     /\ arg[b] = arg[c]
     /\ listed[b] = listed[c])
      => (outcome[b] = outcome[c] /\ result[b] = result[c])

\* both calls found the header in Headers and in PrivateHeaders, the probes
\* returning in opposite orders
C12_Witness ==
  /\ DOMAIN pc = Pair
  /\ op[1] = "header" /\ op[2] = "header"
  /\ arg[1] = FrameworkSource /\ arg[2] = FrameworkSource
  /\ listed[1] = listed[2]
  /\ order[1] = <<1, 2>>
  /\ order[2] = <<2, 1>>
  /\ result[1] = PublicHeader
  /\ result[2] = PublicHeader
  /\ File(PrivateHeader, <<>>) \in tree

\* the line matched through the second alternative of the pattern: ../
\* ascents, any number of them, and the header's file name
ThroughAscent(header, line) ==
  LET pattern == includePattern(header, ProjectRoot)
      match == regexExec(pattern, line)
  IN match.matched /\ match.m1 # pattern.relativePath

\* the path the include of file f leads to from f's directory
ResolvedInclude(f) == normalize(join(<<dirname(f.path), IncludedPath(f.line)>>))

\* C13: a file whose line matched through the ascent alternative is emitted
\* only if the path it names leads from the file's directory to the header
C13_AscentVerified ==
  \A c \in Calls :
    \A k \in 1..Len(emitted[c]) :
      \A f \in tree :
        (f.path = emitted[c][k] /\ ThroughAscent(arg[c], f.line))
          => ResolvedInclude(f) = arg[c]

\* what processGrepResult made of the k-th message delivered to call c
Verdict(c, k) == processGrepResult(seen[c][k], arg[c], patternOf(c))

\* C14: the messages are processed in the order of their delivery.  A
\* message that is rejected leaves the search running and emits nothing;
\* the first accepted one is the last one processed and its file is the
\* value emitted; once a value is emitted neither it nor the result of the
\* call changes
C14_FirstAccepted ==
  /\ [](\A c \in Calls :
          /\ \A k \in 1..(Len(seen[c]) - 1) : Verdict(c, k) = Null
          /\ \A k \in 1..Len(seen[c]) :
               Verdict(c, k) # Null => emitted[c] = <<Verdict(c, k)>>
          /\ \A j \in 1..Len(emitted[c]) :
               emitted[c][j] # Null =>
                 (seen[c] # <<>> /\ emitted[c][j] = Verdict(c, Len(seen[c]))))
  /\ [][\A c \in Calls :
          /\ (/\ Len(seen[c]') > Len(seen[c])
              /\ processGrepResult(seen[c]'[Len(seen[c]')], arg[c], patternOf(c)) = Null)
               => (pc[c]' = "search" /\ emitted[c]' = emitted[c])
          /\ emitted[c] # <<>>
               => (emitted[c]' = emitted[c] /\ result[c]' = result[c]
                   /\ seen[c]' = seen[c])]_vars

\* a header file and a source whose include leads elsewhere were reported
\* and rejected, then a source that includes the header was reported
C14_Witness ==
  \E c \in Calls :
    /\ Len(seen[c]) = 2
    /\ seen[c][1] \in {grepLine(HeaderIncluder), grepLine(DeeperIncluder)}
    /\ seen[c][2] = grepLine(RootIncluder)
    /\ emitted[c] = <<RootIncluder.path>>
    /\ pc[c] = "done"

\* C15: when grep has exited, with whatever status, and no message before
\* the exit was accepted, null is the one value emitted; null is emitted
\* only then, and never beside an accepted file
C15_NullOnExit ==
  \A c \in Calls :
    /\ proc[c] = "exited" =>
         /\ emitted[c] = <<Null>>
         /\ pc[c] = "done"
         /\ outcome[c] \in {"completed", "resolved"}
         /\ op[c] = "source" => result[c] = Null
    /\ (\E j \in 1..Len(emitted[c]) : emitted[c][j] = Null) =>
         /\ emitted[c] = <<Null>>
         /\ proc[c] = "exited"
         /\ pending[c] = {}
         /\ \A k \in 1..Len(seen[c]) : Verdict(c, k) = Null
    /\ (\E k \in 1..Len(seen[c]) : Verdict(c, k) # Null) =>
         (proc[c] # "exited" /\ \A j \in 1..Len(emitted[c]) : emitted[c][j] # Null)

\* grep reported two files, both rejected, and exited
C15_Witness ==
  \E c \in Calls :
    /\ op[c] = "including"
    /\ Len(seen[c]) = 2
    /\ proc[c] = "exited"
    /\ emitted[c] = <<Null>>
    /\ outcome[c] = "completed"

\* the file a grep message is about
FileOf(data) == SubSeq(data, 1, IndexOf(data, NUL) - 1)

\* C16: every path the tree search emits, and every path
\* findSourceFileForHeader resolves with, is a source file; a message about
\* a file that is not a source is rejected, whichever line of the tree it
\* carries
C16_ResultIsSource ==
  \A c \in Calls :
    op[c] \in {"including", "source"} =>
      /\ \A j \in 1..Len(emitted[c]) :
           emitted[c][j] # Null => isSourceFile(emitted[c][j])
      /\ (outcome[c] = "resolved" /\ result[c] # Null) => isSourceFile(result[c])
      /\ \A k \in 1..Len(seen[c]) :
           ~isSourceFile(FileOf(seen[c][k])) =>
             /\ Verdict(c, k) = Null
             /\ \A j \in 1..Len(emitted[c]) : emitted[c][j] # FileOf(seen[c][k])
      /\ \A f, g \in tree :
           ~isSourceFile(f.path) =>
             processGrepResult(grepLine(File(f.path, g.line)), arg[c], patternOf(c)) = Null

\* grep reported the header /r/a/b/c/n.h, whose include leads to the header
\* searched for, and then exited
C16_Witness ==
  \E c \in Calls :
    /\ seen[c] = <<grepLine(HeaderIncluder)>>
    /\ ResolvedInclude(HeaderIncluder) = arg[c]
    /\ proc[c] = "exited"
    /\ emitted[c] = <<Null>>

\* C17: a listing that fails counts as a listing without entries and no
\* call rejects for it.  getRelatedHeaderForSource whose listing of
\* dirname(src) failed finds no header there and goes on to the framework
\* lookup (or resolves with null where src is in no framework), a framework
\* probe whose listing failed finds nothing, and findSourceFileForHeader
\* whose listing of dirname(header) failed starts the tree search
C17_ListingFailureAbsorbed ==
  \A c \in Calls :
    /\ outcome[c] # "rejected"
    /\ (op[c] = "header" /\ pc[c] \notin {"idle", "probe"} /\ ~readOk[c]) =>
         /\ listed[c][1] = Listing(<<>>)
         /\ IF getFrameworkStructure(ownDir(c)).kind = "null"
            THEN outcome[c] = "resolved" /\ result[c] = Null
            ELSE /\ pc[c] = "framework" \/ Len(order[c]) = Len(HeaderFolders)
                 /\ pc[c] = "done" => result[c] = findNonNull(headers[c])
    /\ \A k \in 1..Len(order[c]) :
         ~folderOk[c][order[c][k]] => headers[c][order[c][k]] = Null
    /\ (op[c] = "source" /\ pc[c] \notin {"idle", "probe"} /\ ~readOk[c]) =>
         proc[c] # "none"

\* the header beside the source could not be listed and the one in Headers
\* was found
C17_Witness ==
  \E c \in Calls :
    /\ op[c] = "header"
    /\ ~readOk[c]
    /\ SameDir(tree, arg[c], TRUE) # {}
    /\ pc[c] = "done"
    /\ result[c] = PublicHeader

\* the segments of dir, and among them the place of the deepest Sources
\* (0 if there is none)
SegmentsOf(dir) ==
  IF isAbsolute(dir) THEN <<<<SLASH>>>> \o SplitOn(Tail_(dir, 2), SLASH)
  ELSE SplitOn(dir, SLASH)

DeepestSources(dir) ==
  LET segs == SegmentsOf(dir)
  IN IF \E i \in 1..Len(segs) : segs[i] = Sources
     THEN CHOOSE i \in 1..Len(segs) :
            segs[i] = Sources /\ \A j \in (i + 1)..Len(segs) : segs[j] # Sources
     ELSE 0

\* the path of the first n segments of dir
UpTo(dir, n) ==
  LET segs == SegmentsOf(dir)
  IN IF isAbsolute(dir) THEN <<SLASH>> \o Flatten(SubSeq(segs, 2, n), SLASH)
     ELSE Flatten(SubSeq(segs, 1, n), SLASH)

\* C18 as claimed: null exactly without a Sources segment; else a structure
\* whose frameworkName is the segment above the deepest Sources,
\* frameworkPath the path down to it, and frameworkSubFolder the path of the
\* segments between Sources and dir's last segment, the empty string for a
\* dir that is a folder directly under Sources
C18_Original ==
  \A c \in DOMAIN pc :
    op[c] = "structure" =>
      LET segs == SegmentsOf(arg[c])
          i == DeepestSources(arg[c])
          fw == structure[c]
      IN /\ fw.kind = "null" <=> i = 0
         /\ i > 0 =>
              /\ fw.kind = "struct"
              /\ \E j \in 1..Len(segs) : j = i - 1 /\ fw.frameworkName = segs[j]
              /\ fw.frameworkPath = UpTo(arg[c], i - 1)
              /\ fw.frameworkSubFolder
                   = Flatten(SubSeq(segs, i + 1, Len(segs) - 1), SLASH)
              /\ i = Len(segs) - 1 => fw.frameworkSubFolder = <<>>

\* C18: getFrameworkStructure returns null exactly for a dir without a
\* Sources segment, and fails exactly when the deepest Sources is the first
\* segment of a relative dir, where no segment is above it.  In every other
\* case the segment above the deepest Sources (the root "/" when Sources is
\* the first folder of an absolute dir) is frameworkName, the path down to
\* it is frameworkPath, and frameworkSubFolder is the path of all the
\* segments below Sources, dir's last one included: empty only when dir is
\* the Sources folder itself
C18_FrameworkStructure ==
  \A c \in DOMAIN pc :
    op[c] = "structure" =>
      LET segs == SegmentsOf(arg[c])
          i == DeepestSources(arg[c])
          fw == structure[c]
      IN /\ fw.kind = "null" <=> i = 0
         /\ fw.kind = "throw" <=> i = 1
         /\ i > 1 =>
              /\ fw.kind = "struct"
              /\ fw.frameworkName = segs[i - 1]
              /\ fw.frameworkPath = UpTo(arg[c], i - 1)
              /\ fw.frameworkSubFolder = Flatten(SubSeq(segs, i + 1, Len(segs)), SLASH)
              /\ fw.frameworkSubFolder = <<>> <=> i = Len(segs)

\* /F/Sources/S, a folder directly under Sources, has the sub-folder S
C18_Witness ==
  \E c \in DOMAIN pc :
    /\ op[c] = "structure"
    /\ arg[c] = dirname(FrameworkSource)
    /\ structure[c] = [kind |-> "struct",
                       frameworkName |-> <<"F">>,
                       frameworkPath |-> AbsPath(<<<<"F">>>>),
                       frameworkSubFolder |-> <<"S">>]

\* the messages of the scan of call c, delivered or not
Reported(c) == pending[c] \cup {seen[c][k] : k \in 1..Len(seen[c])}

\* C19: every file the scan reports and every path the tree search emits
\* lies below dirname(header); a file of the project outside that directory
\* is not reported, though its line names the header
C19_ScanRootedAtHeaderDir ==
  \A c \in Calls :
    proc[c] # "none" =>
      /\ \A data \in Reported(c) : Under(dirname(arg[c]), FileOf(data))
      /\ \A j \in 1..Len(emitted[c]) :
           emitted[c][j] # Null => Under(dirname(arg[c]), emitted[c][j])
      /\ \A f \in tree :
           (Under(ProjectRoot, f.path) /\ ~Under(dirname(arg[c]), f.path))
             => grepLine(f) \notin Reported(c)

\* with /r/c/v.m and /r/a/b/c/w.m both holding #include <a/b/x.h>, only
\* w.m was reported, and returned
C19_Witness ==
  \E c \in Calls :
    /\ tree = {OutsideRoot, RootIncluder}
    /\ seen[c] = <<grepLine(RootIncluder)>>
    /\ pending[c] = {}
    /\ emitted[c] = <<RootIncluder.path>>

\* C20: when the scan fails before a file was accepted,
\* findIncludingSourceFile ends with an error and has emitted nothing; it
\* errors in no other case, and once a value was emitted no failure changes
\* what the call delivered or how it ended
C20_ErrorBeforeMatch ==
  /\ [](\A c \in Calls :
          /\ (op[c] = "including" /\ proc[c] = "failed") =>
               (pc[c] = "done" /\ outcome[c] = "errored" /\ emitted[c] = <<>>)
          /\ outcome[c] = "errored" =>
               /\ op[c] = "including"
               /\ proc[c] = "failed"
               /\ emitted[c] = <<>>
               /\ \A k \in 1..Len(seen[c]) : Verdict(c, k) = Null
          /\ emitted[c] # <<>> => proc[c] \in {"killed", "exited"})
  /\ [][\A c \in Calls :
          emitted[c] # <<>> =>
            /\ emitted[c]' = emitted[c]
            /\ outcome[c]' = outcome[c]
            /\ proc[c]' = proc[c]]_vars

\* the scan failed after a rejected message, with a message of an including
\* source still to come
C20_Witness ==
  \E c \in Calls :
    /\ op[c] = "including"
    /\ seen[c] = <<grepLine(DeeperIncluder)>>
    /\ pending[c] = {grepLine(RelativeIncluder)}
    /\ proc[c] = "failed"
    /\ outcome[c] = "errored"
    /\ emitted[c] = <<>>

====
